---------------------------- MODULE Spec2Model ----------------------------
(***************************************************************************)
(* Model of the mzTab-M to MetaboLights conversion driver                  *)
(* (src/mztabm2mtbls/converter.py): the command `convert`, one run of it   *)
(* from the parsed command line options to the exit of the process.        *)
(*                                                                         *)
(* Paths and option values are sequences of one-character strings, so     *)
(* that os.path.splitext, str.lower, str.startswith and os.path.join are   *)
(* computed character by character as the library computes them.           *)
(***************************************************************************)
EXTENDS Integers, Sequences, FiniteSets, TLC

VARIABLES
    input_file,                  \* option --input-file
    output_dir,                  \* option --output_dir
    mtbls_accession_number,      \* option --mtbls_accession_number
    override_mztab2m_json_file,  \* option --override_mztab2m_json_file
    fs,                          \* paths that exist when the run starts
    toolWrote,                   \* the external tool wrote <input_file>.json
    pc,                          \* position of the run inside convert
    input_json_file,             \* local of convert
    extension,                   \* local of convert
    task,                        \* local of convert (None until run returns)
    toolRuns,                    \* history: invocations of subprocess.run
    printed,                     \* history: lines written by print
    exitStatus,                  \* <<>> while running, <<n>> after exit(n)
    raised,                      \* the call whose exception left convert
    opened,                      \* history: files passed to open
    calls,                       \* history: collaborator calls, in order
    mztab_json_data,             \* local of convert
    mztab_model,                 \* local of convert
    mtbls_model,                 \* local of convert
    mapperIndex,                 \* position of the for loop over mappers
    updates,                     \* history: arguments of each mapper.update
    saved                        \* history: arguments of each save call

vars == <<input_file, output_dir, mtbls_accession_number,
          override_mztab2m_json_file, fs, toolWrote, pc, input_json_file,
          extension, task, toolRuns, printed, exitStatus, raised, opened,
          calls, mztab_json_data, mztab_model, mtbls_model, mapperIndex,
          updates, saved>>

options == <<input_file, output_dir, mtbls_accession_number,
             override_mztab2m_json_file, fs>>

---------------------------------------------------------------------------
(* Bounds of the model. *)

\* Longest file stem (the part before the extension) that is enumerated.
MaxStemLen == 1

---------------------------------------------------------------------------
(* Program constants. *)

\* timeout=120 of subprocess.run
ToolTimeout == 120

\* sys.exit(1)
ExitFailure == 1

\* exit status of the process when convert returns
ExitSuccess == 0

SEP == "/"

EXTSEP == "."

JsonSuffix == <<".", "j", "s", "o", "n">>

DefaultInputFile ==
    <<"t", "e", "s", "t", "/", "d", "a", "t", "a", "/", "s", "i", "n", "g",
      "a", "p", "o", "r", "e", "a", "n", "-", "p", "l", "a", "s", "m", "a",
      "-", "s", "i", "t", "e", "1", ".", "m", "z", "T", "a", "b">>

DefaultPrefix ==
    <<"t", "e", "s", "t", "/", "d", "a", "t", "a", "/", "s", "i", "n", "g",
      "a">>

DefaultOutputDir == <<"o", "u", "t", "p", "u", "t">>

DefaultAccession ==
    <<"M", "T", "B", "L", "S", "1", "0", "0", "0", "0", "0", "0">>

\* The lines convert prints.
DisclaimerMsg ==
    "Please note that the mzTab-M file is not fully validated by this tool. The ISA-Tab files are not validated either at the moment."

DefaultFileMsg ==
    "Using default input file: test/data/singaporean-plasma-site1.mzTab"

DefaultHintMsg ==
    "Please use the --input-file option to specify a custom input file."

ExistsMsg == " file exists, it will be used as an input."

ConvertingMsg ==
    "Converting mzTab file to mzTab json format. Please check container management tool (docker, podman, etc.) is installed and runnig."

TimeoutMsg ==
    "The conversion of the mzTab file to mzTab json format timed out."

FailedMsg ==
    "The conversion of the mzTab file to mzTab json format failed."

---------------------------------------------------------------------------
(* Library functions convert uses, computed as the library computes them.  *)

UpperChars ==
    <<"A", "B", "C", "D", "E", "F", "G", "H", "I", "J", "K", "L", "M", "N",
      "O", "P", "Q", "R", "S", "T", "U", "V", "W", "X", "Y", "Z">>

LowerChars ==
    <<"a", "b", "c", "d", "e", "f", "g", "h", "i", "j", "k", "l", "m", "n",
      "o", "p", "q", "r", "s", "t", "u", "v", "w", "x", "y", "z">>

LowerChar(c) ==
    IF \E i \in DOMAIN UpperChars : UpperChars[i] = c
    THEN LowerChars[CHOOSE i \in DOMAIN UpperChars : UpperChars[i] = c]
    ELSE c

\* A comparison that forgets to fold the case.
lower_identity(s) == s

\* str.lower()
lower(s) == [i \in DOMAIN s |-> LowerChar(s[i])]

\* str.rfind(ch) + 1: the last position of ch in p, 0 when there is none
RFind(p, ch) ==
    IF \E i \in DOMAIN p : p[i] = ch
    THEN CHOOSE i \in DOMAIN p :
             p[i] = ch /\ \A j \in DOMAIN p : p[j] = ch => j <= i
    ELSE 0

\* os.path.splitext(p)[1]
splitext(p) ==
    LET sepIndex == RFind(p, SEP)
        dotIndex == RFind(p, EXTSEP)
    IN  IF /\ dotIndex > sepIndex
           /\ \E k \in (sepIndex + 1)..(dotIndex - 1) : p[k] # EXTSEP
        THEN SubSeq(p, dotIndex, Len(p))
        ELSE <<>>

\* str.startswith(prefix)
startswith(p, prefix) ==
    /\ Len(p) >= Len(prefix)
    /\ SubSeq(p, 1, Len(prefix)) = prefix

\* os.path.join(a, b)
join(a, b) ==
    IF startswith(b, <<SEP>>) THEN b
    ELSE IF a = <<>> \/ a[Len(a)] = SEP THEN a \o b
    ELSE a \o <<SEP>> \o b

\* os.path.exists(p): p is a file or a directory of the file system
exists(p) == p \in fs \/ (toolWrote /\ p = input_file \o JsonSuffix)

Line(text) == [text |-> text, path |-> <<>>]


---------------------------------------------------------------------------
(* The module-level list of mapper units. *)

\* The list with the assay mapper declared ahead of the sample mapper.
mappers_assay_first ==
    <<"MetadataBaseMapper", "MetadataContactMapper",
      "MetadataPublicationMapper", "MetadataCvMapper",
      "MetadataAssayMapper", "MetadataSampleProcessingMapper",
      "MetadataSoftwareMapper", "MetadataDatabaseMapper",
      "MetadataSampleMapper", "SmallMoleculeSummaryMapper">>

\* One unit per metadata facet: contacts, publications, controlled-vocabulary
\* terms, samples, sample processing, software, databases, assay metadata,
\* small-molecule summary.
FacetUnits ==
    <<"MetadataContactMapper", "MetadataPublicationMapper",
      "MetadataCvMapper", "MetadataSampleMapper",
      "MetadataSampleProcessingMapper", "MetadataSoftwareMapper",
      "MetadataDatabaseMapper", "MetadataAssayMapper",
      "SmallMoleculeSummaryMapper">>

\* The list without the base metadata mapper.
mappers_without_base == FacetUnits

mappers ==
    <<"MetadataBaseMapper", "MetadataContactMapper",
      "MetadataPublicationMapper", "MetadataCvMapper",
      "MetadataSampleMapper", "MetadataSampleProcessingMapper",
      "MetadataSoftwareMapper", "MetadataDatabaseMapper",
      "MetadataAssayMapper", "SmallMoleculeSummaryMapper">>

---------------------------------------------------------------------------
(* The inputs of a run. *)

StemChars == {"a", EXTSEP, SEP}

RECURSIVE SeqsUpTo(_, _)
SeqsUpTo(S, n) ==
    IF n = 0 THEN {<<>>}
    ELSE LET shorter == SeqsUpTo(S, n - 1)
         IN  shorter \cup {Append(q, c) : q \in shorter, c \in S}

Extensions ==
    { <<>>, JsonSuffix, <<".", "J", "S", "O", "N">>,
      <<".", "J", "s", "o", "n">>, <<".", "m", "z", "T", "a", "b">>,
      <<".", "t", "x", "t">> }

InputFiles ==
    {stem \o ext : stem \in SeqsUpTo(StemChars, MaxStemLen), ext \in Extensions}
        \cup {DefaultInputFile}

OutputDirs == {DefaultOutputDir, <<"o", "u", "t", SEP>>, <<>>}

AccessionNumbers == {DefaultAccession, <<SEP, "M", "1">>}

\* What the external tool writes to a stream: nothing, or some text.
ToolStdout == {"", "jmztab-m stdout"}

ToolStderr == {"", "jmztab-m stderr"}

\* str(exc) of an exception other than the two subprocess ones
ExceptionText == "str(exc)"

NoTask == [returned |-> FALSE, stdout |-> "", stderr |-> ""]

NoSource == [from |-> "unset", modified |-> FALSE]

NoModel == [created |-> FALSE, study_id |-> <<>>, updated_by |-> <<>>]

Init ==
    /\ input_file \in InputFiles
    /\ output_dir \in OutputDirs
    /\ mtbls_accession_number \in AccessionNumbers
    /\ override_mztab2m_json_file \in BOOLEAN
    /\ fs \in SUBSET {input_file, input_file \o JsonSuffix}
    /\ toolWrote = FALSE
    /\ pc = "begin"
    /\ input_json_file = <<>>
    /\ extension = <<>>
    /\ task = NoTask
    /\ toolRuns = <<>>
    /\ printed = <<>>
    /\ exitStatus = <<>>
    /\ raised = "none"
    /\ opened = <<>>
    /\ calls = <<>>
    /\ mztab_json_data = "unset"
    /\ mztab_model = NoSource
    /\ mtbls_model = NoModel
    /\ mapperIndex = 1
    /\ updates = <<>>
    /\ saved = <<>>

---------------------------------------------------------------------------
(* convert, lines 90-113: the choice of the JSON file.                     *)

\* Lines 90-101: the disclaimer, the default-file notice, the extension.
Begin ==
    /\ pc = "begin"
    /\ input_json_file' = input_file
    /\ printed' =
         IF startswith(input_file, DefaultPrefix)
         THEN printed \o <<Line(DisclaimerMsg), Line(DefaultFileMsg),
                           Line(DefaultHintMsg)>>
         ELSE Append(printed, Line(DisclaimerMsg))
    /\ extension' = splitext(input_file)
    /\ pc' = "check_extension"
    /\ UNCHANGED <<options, toolWrote, task, toolRuns, exitStatus, raised,
                   opened, calls, mztab_json_data, mztab_model, mtbls_model,
                   mapperIndex, updates, saved>>

\* Line 102: extension.lower() != ".json"
NeedsJsonSibling(ext) == lower(ext) # JsonSuffix

\* An existing sibling is reused whatever the override option says.
ReuseExistingJson_ignores_override(override, sibling) == exists(sibling)

\* Line 104: not override_mztab2m_json_file and os.path.exists(...)
ReuseExistingJson(override, sibling) == ~override /\ exists(sibling)

\* Line 102 false: the input is the JSON file.
InputIsJson ==
    /\ pc = "check_extension"
    /\ ~NeedsJsonSibling(extension)
    /\ pc' = "open"
    /\ UNCHANGED <<options, toolWrote, input_json_file, extension, task,
                   toolRuns, printed, exitStatus, raised, opened, calls,
                   mztab_json_data, mztab_model, mtbls_model, mapperIndex,
                   updates, saved>>

\* Lines 103-105: the sibling exists and is used as it is.
UseExistingJson ==
    /\ pc = "check_extension"
    /\ NeedsJsonSibling(extension)
    /\ ReuseExistingJson(override_mztab2m_json_file, input_file \o JsonSuffix)
    /\ input_json_file' = input_file \o JsonSuffix
    /\ printed' = Append(printed, [text |-> ExistsMsg,
                                   path |-> input_file \o JsonSuffix])
    /\ pc' = "open"
    /\ UNCHANGED <<options, toolWrote, extension, task, toolRuns, exitStatus,
                   raised, opened, calls, mztab_json_data, mztab_model,
                   mtbls_model, mapperIndex, updates, saved>>

\* Lines 103, 106-114: the pre-conversion is announced, task = None.
StartPreConversion ==
    /\ pc = "check_extension"
    /\ NeedsJsonSibling(extension)
    /\ ~ReuseExistingJson(override_mztab2m_json_file, input_file \o JsonSuffix)
    /\ input_json_file' = input_file \o JsonSuffix
    /\ printed' = Append(printed, Line(ConvertingMsg))
    /\ task' = NoTask
    /\ pc' = "run_tool"
    /\ UNCHANGED <<options, toolWrote, extension, toolRuns, exitStatus,
                   raised, opened, calls, mztab_json_data, mztab_model,
                   mtbls_model, mapperIndex, updates, saved>>

---------------------------------------------------------------------------
(* convert, lines 114-141: the pre-conversion by the external tool.        *)

Invocation(outcome, out, err) ==
    [file |-> input_file, timeout |-> ToolTimeout, outcome |-> outcome,
     stdout |-> out, stderr |-> err]

loadVars == <<opened, calls, mztab_json_data, mztab_model, mtbls_model,
              mapperIndex, updates, saved>>

\* Lines 116-124, 139-141: the tool exits 0 within the time budget; the
\* finally clause prints what it wrote to its standard output.
ToolSucceeds ==
    /\ pc = "run_tool"
    /\ \E out \in ToolStdout, err \in ToolStderr, wrote \in BOOLEAN :
         /\ toolRuns' = Append(toolRuns, Invocation("ok", out, err))
         /\ task' = [returned |-> TRUE, stdout |-> out, stderr |-> err]
         /\ toolWrote' = wrote
         /\ printed' = IF out # "" THEN Append(printed, Line(out))
                       ELSE printed
    /\ pc' = "open"
    /\ UNCHANGED <<options, input_json_file, extension, exitStatus, raised,
                   loadVars>>

\* The timeout is reported and the run goes on to load the JSON file.
ToolTimesOut_continues ==
    /\ pc = "run_tool"
    /\ \E out \in ToolStdout, err \in ToolStderr :
         toolRuns' = Append(toolRuns, Invocation("timeout", out, err))
    /\ printed' = Append(printed, Line(TimeoutMsg))
    /\ pc' = "open"
    /\ UNCHANGED <<options, toolWrote, input_json_file, extension, task,
                   exitStatus, raised, loadVars>>

\* Lines 125-127, 139-141: subprocess.TimeoutExpired; task is still None.
ToolTimesOut ==
    /\ pc = "run_tool"
    /\ \E out \in ToolStdout, err \in ToolStderr :
         toolRuns' = Append(toolRuns, Invocation("timeout", out, err))
    /\ printed' = Append(printed, Line(TimeoutMsg))
    /\ exitStatus' = <<ExitFailure>>
    /\ pc' = "exited"
    /\ UNCHANGED <<options, toolWrote, input_json_file, extension, task,
                   raised, loadVars>>

\* The tool's failure ends the run without a word.
ToolExitsNonZero_silent ==
    /\ pc = "run_tool"
    /\ \E out \in ToolStdout, err \in ToolStderr :
         toolRuns' = Append(toolRuns, Invocation("nonzero", out, err))
    /\ exitStatus' = <<ExitFailure>>
    /\ pc' = "exited"
    /\ UNCHANGED <<options, toolWrote, input_json_file, extension, task,
                   printed, raised, loadVars>>

\* Lines 128-131, 139-141: subprocess.CalledProcessError; exc.stderr is
\* printed, task is still None.
ToolExitsNonZero ==
    /\ pc = "run_tool"
    /\ \E out \in ToolStdout, err \in ToolStderr :
         /\ toolRuns' = Append(toolRuns, Invocation("nonzero", out, err))
         /\ printed' = printed \o <<Line(FailedMsg), Line(err)>>
    /\ exitStatus' = <<ExitFailure>>
    /\ pc' = "exited"
    /\ UNCHANGED <<options, toolWrote, input_json_file, extension, task,
                   raised, loadVars>>

\* Lines 132-141: any other exception of subprocess.run (the shell cannot
\* be started, the captured output cannot be decoded); task is still None,
\* so str(exc) is printed.
ToolRaisesOther ==
    /\ pc = "run_tool"
    /\ \E out \in ToolStdout, err \in ToolStderr :
         toolRuns' = Append(toolRuns, Invocation("error", out, err))
    /\ printed' = printed \o
         <<Line(FailedMsg),
           Line(IF task.returned /\ task.stderr # "" THEN task.stderr
                ELSE ExceptionText)>>
    /\ exitStatus' = <<ExitFailure>>
    /\ pc' = "exited"
    /\ UNCHANGED <<options, toolWrote, input_json_file, extension, task,
                   raised, loadVars>>

---------------------------------------------------------------------------
(* convert, lines 143-157: load, normalize, construct, map, save.          *)

preVars == <<options, toolWrote, input_json_file, extension, task, toolRuns,
             printed, exitStatus>>

Call(fn, ok) == [fn |-> fn, ok |-> ok]

\* An exception of the call fn: convert catches nothing after line 141.
Raise(fn) ==
    /\ calls' = Append(calls, Call(fn, FALSE))
    /\ raised' = fn
    /\ pc' = "raised"

\* Line 143: open(input_json_file) returns a file, which takes a path that
\* exists.
OpenJson ==
    /\ pc = "open"
    /\ exists(input_json_file)
    /\ opened' = Append(opened, input_json_file)
    /\ calls' = Append(calls, Call("open", TRUE))
    /\ pc' = "json_load"
    /\ UNCHANGED <<preVars, raised, mztab_json_data, mztab_model,
                   mtbls_model, mapperIndex, updates, saved>>

\* Line 143: open raises. The path is missing, or it exists and cannot be
\* opened for reading (a directory, a file without read permission), so
\* the failure is possible whatever os.path.exists says of the path.
OpenFails ==
    /\ pc = "open"
    /\ opened' = Append(opened, input_json_file)
    /\ Raise("open")
    /\ UNCHANGED <<preVars, mztab_json_data, mztab_model, mtbls_model,
                   mapperIndex, updates, saved>>

\* After the load the model is validated without the null normalization.
JsonLoad_skips_normalization ==
    /\ pc = "json_load"
    /\ calls' = Append(calls, Call("json.load", TRUE))
    /\ mztab_json_data' = "raw"
    /\ pc' = "model_validate"
    /\ UNCHANGED <<preVars, raised, opened, mztab_model, mtbls_model,
                   mapperIndex, updates, saved>>

\* Line 144: json.load(f)
JsonLoad ==
    /\ pc = "json_load"
    /\ calls' = Append(calls, Call("json.load", TRUE))
    /\ mztab_json_data' = "raw"
    /\ pc' = "replace_null"
    /\ UNCHANGED <<preVars, raised, opened, mztab_model, mtbls_model,
                   mapperIndex, updates, saved>>

JsonLoadFails ==
    /\ pc = "json_load"
    /\ Raise("json.load")
    /\ UNCHANGED <<preVars, opened, mztab_json_data, mztab_model,
                   mtbls_model, mapperIndex, updates, saved>>

\* Line 145: utils.replace_null_string_with_none(mztab_json_data)
ReplaceNull ==
    /\ pc = "replace_null"
    /\ calls' = Append(calls, Call("replace_null_string_with_none", TRUE))
    /\ mztab_json_data' = "normalized"
    /\ pc' = "model_validate"
    /\ UNCHANGED <<preVars, raised, opened, mztab_model, mtbls_model,
                   mapperIndex, updates, saved>>

ReplaceNullFails ==
    /\ pc = "replace_null"
    /\ Raise("replace_null_string_with_none")
    /\ UNCHANGED <<preVars, opened, mztab_json_data, mztab_model,
                   mtbls_model, mapperIndex, updates, saved>>

\* Line 146: MzTab.model_validate(mztab_json_data)
ModelValidate ==
    /\ pc = "model_validate"
    /\ calls' = Append(calls, Call("model_validate", TRUE))
    /\ mztab_model' = [from |-> mztab_json_data, modified |-> FALSE]
    /\ pc' = "modify_model"
    /\ UNCHANGED <<preVars, raised, opened, mztab_json_data, mtbls_model,
                   mapperIndex, updates, saved>>

ModelValidateFails ==
    /\ pc = "model_validate"
    /\ Raise("model_validate")
    /\ UNCHANGED <<preVars, opened, mztab_json_data, mztab_model,
                   mtbls_model, mapperIndex, updates, saved>>

\* Line 147: utils.modify_mztab_model(mztab_model)
ModifyModel ==
    /\ pc = "modify_model"
    /\ calls' = Append(calls, Call("modify_mztab_model", TRUE))
    /\ mztab_model' = [mztab_model EXCEPT !.modified = TRUE]
    /\ pc' = "create_model"
    /\ UNCHANGED <<preVars, raised, opened, mztab_json_data, mtbls_model,
                   mapperIndex, updates, saved>>

ModifyModelFails ==
    /\ pc = "modify_model"
    /\ Raise("modify_mztab_model")
    /\ UNCHANGED <<preVars, opened, mztab_json_data, mztab_model,
                   mtbls_model, mapperIndex, updates, saved>>

\* Lines 148-150: utils.create_metabolights_study_model(study_id=...)
CreateStudyModel ==
    /\ pc = "create_model"
    /\ calls' = Append(calls, Call("create_metabolights_study_model", TRUE))
    /\ mtbls_model' = [created |-> TRUE, study_id |-> mtbls_accession_number,
                       updated_by |-> <<>>]
    /\ mapperIndex' = 1
    /\ pc' = IF Len(mappers) = 0 THEN "save" ELSE "map"
    /\ UNCHANGED <<preVars, raised, opened, mztab_json_data, mztab_model,
                   updates, saved>>

CreateStudyModelFails ==
    /\ pc = "create_model"
    /\ Raise("create_metabolights_study_model")
    /\ UNCHANGED <<preVars, opened, mztab_json_data, mztab_model,
                   mtbls_model, mapperIndex, updates, saved>>

\* The arguments of one call of update.
UpdateCall(unit) == [unit |-> unit, src |-> mztab_model, dst |-> mtbls_model]

\* The failure of a mapper is logged and the loop goes on.
MapperUpdateFails_swallowed ==
    /\ pc = "map"
    /\ mapperIndex \in DOMAIN mappers
    /\ updates' = Append(updates, UpdateCall(mappers[mapperIndex]))
    /\ calls' = Append(calls, Call(mappers[mapperIndex], FALSE))
    /\ mapperIndex' = mapperIndex + 1
    /\ pc' = IF mapperIndex = Len(mappers) THEN "save" ELSE "map"
    /\ UNCHANGED <<preVars, raised, opened, mztab_json_data, mztab_model,
                   mtbls_model, saved>>

\* Lines 152-153: one iteration of the loop, mapper.update returns.
MapperUpdate ==
    /\ pc = "map"
    /\ mapperIndex \in DOMAIN mappers
    /\ updates' = Append(updates, UpdateCall(mappers[mapperIndex]))
    /\ calls' = Append(calls, Call(mappers[mapperIndex], TRUE))
    /\ mtbls_model' = [mtbls_model EXCEPT
                         !.updated_by = Append(@, mappers[mapperIndex])]
    /\ mapperIndex' = mapperIndex + 1
    /\ pc' = IF mapperIndex = Len(mappers) THEN "save" ELSE "map"
    /\ UNCHANGED <<preVars, raised, opened, mztab_json_data, mztab_model,
                   saved>>

\* Lines 152-153: mapper.update raises; the loop has no handler.
MapperUpdateFails ==
    /\ pc = "map"
    /\ mapperIndex \in DOMAIN mappers
    /\ updates' = Append(updates, UpdateCall(mappers[mapperIndex]))
    /\ Raise(mappers[mapperIndex])
    /\ UNCHANGED <<preVars, opened, mztab_json_data, mztab_model,
                   mtbls_model, mapperIndex, saved>>

\* The study files are written straight into the output directory.
StudyMetadataOutputPath_without_accession == output_dir

\* Line 154: os.path.join(output_dir, mtbls_accession_number)
StudyMetadataOutputPath == join(output_dir, mtbls_accession_number)

SaveCall == [model |-> mtbls_model, output_dir |-> StudyMetadataOutputPath]

\* Lines 154-157: the model is written, convert returns, the process ends.
SaveModel ==
    /\ pc = "save"
    /\ saved' = Append(saved, SaveCall)
    /\ calls' = Append(calls, Call("save_metabolights_study_model", TRUE))
    /\ exitStatus' = <<ExitSuccess>>
    /\ pc' = "returned"
    /\ UNCHANGED <<options, toolWrote, input_json_file, extension, task,
                   toolRuns, printed, raised, opened, mztab_json_data,
                   mztab_model, mtbls_model, mapperIndex, updates>>

\* Lines 155-157: the serializer raises.
SaveModelFails ==
    /\ pc = "save"
    /\ saved' = Append(saved, SaveCall)
    /\ Raise("save_metabolights_study_model")
    /\ UNCHANGED <<preVars, opened, mztab_json_data, mztab_model,
                   mtbls_model, mapperIndex, updates>>

---------------------------------------------------------------------------

Next ==
    \/ Begin
    \/ InputIsJson
    \/ UseExistingJson
    \/ StartPreConversion
    \/ ToolSucceeds
    \/ ToolTimesOut
    \/ ToolExitsNonZero
    \/ ToolRaisesOther
    \/ OpenJson
    \/ OpenFails
    \/ JsonLoad
    \/ JsonLoadFails
    \/ ReplaceNull
    \/ ReplaceNullFails
    \/ ModelValidate
    \/ ModelValidateFails
    \/ ModifyModel
    \/ ModifyModelFails
    \/ CreateStudyModel
    \/ CreateStudyModelFails
    \/ MapperUpdate
    \/ MapperUpdateFails
    \/ SaveModel
    \/ SaveModelFails

Spec == Init /\ [][Next]_vars

---------------------------------------------------------------------------
(* Vocabulary of the properties.                                           *)

Range(q) == {q[i] : i \in DOMAIN q}

\* The units update was called on, in call order.
UnitsCalled == [i \in DOMAIN updates |-> updates[i].unit]

MapperNames == Range(mappers)

SaveName == "save_metabolights_study_model"

\* The call fn returned before position i of the call history.
ReturnedBefore(fn, i) == \E j \in 1..(i - 1) : calls[j] = Call(fn, TRUE)

Called(fn) == \E i \in DOMAIN calls : calls[i].fn = fn

\* The spellings of the .json extension among the enumerated inputs.
JsonSpellings ==
    { JsonSuffix, <<".", "J", "S", "O", "N">>, <<".", "J", "s", "o", "n">> }

HasJsonExtension == splitext(input_file) \in JsonSpellings

Sibling == input_file \o JsonSuffix

\* The failure messages of convert; both name the conversion of the mzTab
\* file to JSON, the pre-conversion.
PreConversionFailureMsgs == {TimeoutMsg, FailedMsg}

\* What convert prints before line 114 and in the finally clause.
ProgressTexts ==
    {DisclaimerMsg, DefaultFileMsg, DefaultHintMsg, ExistsMsg, ConvertingMsg}
        \cup ToolStdout

---------------------------------------------------------------------------
(* C1: the mapper units are updated in the declared order, each at most    *)
(* once, all with the same source model and the same destination model     *)
(* (the one the earlier units filled); the sample mapper has returned      *)
(* before the assay mapper is called and the database mapper before the    *)
(* small-molecule summary mapper.                                          *)
C1_DeclaredOrder ==
    /\ Len(updates) <= Len(mappers)
    /\ \A i \in DOMAIN updates :
         /\ updates[i].unit = mappers[i]
         /\ \A j \in DOMAIN updates : i # j => updates[i].unit # updates[j].unit
         /\ updates[i].src = updates[1].src
         /\ updates[i].dst.created
         /\ updates[i].dst.study_id = updates[1].dst.study_id
         /\ updates[i].dst.updated_by = SubSeq(UnitsCalled, 1, i - 1)
         /\ updates[i].unit = "MetadataAssayMapper"
              => "MetadataSampleMapper" \in Range(updates[i].dst.updated_by)
         /\ updates[i].unit = "SmallMoleculeSummaryMapper"
              => "MetadataDatabaseMapper" \in Range(updates[i].dst.updated_by)

C1_Witness ==
    /\ pc = "returned"
    /\ "MetadataAssayMapper" \in Range(UnitsCalled)
    /\ "SmallMoleculeSummaryMapper" \in Range(UnitsCalled)

(* C2: a failing mapper update is the last call of the run: no later       *)
(* mapper is called, the exception leaves convert, and the serializer is   *)
(* never called, so nothing is written.                                    *)
C2_MapperFailureAborts ==
    \A i \in DOMAIN calls :
        (calls[i].fn \in MapperNames /\ ~calls[i].ok)
            => /\ i = Len(calls)
               /\ pc = "raised"
               /\ raised = calls[i].fn
               /\ exitStatus = <<>>
               /\ saved = <<>>
               /\ ~Called(SaveName)

C2_Witness ==
    /\ pc = "raised"
    /\ raised = "SmallMoleculeSummaryMapper"
    /\ Len(mtbls_model.updated_by) = Len(mappers) - 1

(* C3: the null normalization returns before the source model is          *)
(* constructed, the correction pass runs after the construction, and both  *)
(* have returned before any mapper is called; when the load, a            *)
(* normalization pass or the construction fails, no mapper runs and        *)
(* nothing is serialized.                                                  *)
C3_StageOrder ==
    /\ \A i \in DOMAIN calls :
         /\ calls[i].fn = "replace_null_string_with_none"
              => ReturnedBefore("json.load", i)
         /\ calls[i].fn = "model_validate"
              => ReturnedBefore("replace_null_string_with_none", i)
         /\ calls[i].fn = "modify_mztab_model"
              => ReturnedBefore("model_validate", i)
         /\ calls[i].fn \in MapperNames
              => /\ ReturnedBefore("replace_null_string_with_none", i)
                 /\ ReturnedBefore("model_validate", i)
                 /\ ReturnedBefore("modify_mztab_model", i)
         /\ (/\ ~calls[i].ok
             /\ calls[i].fn \in {"open", "json.load",
                                 "replace_null_string_with_none",
                                 "model_validate", "modify_mztab_model"})
              => /\ updates = <<>>
                 /\ saved = <<>>
                 /\ pc = "raised"
    /\ \A i \in DOMAIN updates :
         updates[i].src = [from |-> "normalized", modified |-> TRUE]

C3_Witness ==
    /\ updates # <<>>
    /\ Called("modify_mztab_model")

(* C4: when the pre-conversion times out, the timeout is printed, the run  *)
(* exits with the failure status, which differs from the success status,   *)
(* no JSON is opened, no collaborator is called, no mapper is updated,     *)
(* nothing is saved and the tool was invoked exactly once.                 *)
C4_TimeoutAborts ==
    \A i \in DOMAIN toolRuns :
        toolRuns[i].outcome = "timeout"
            => /\ Line(TimeoutMsg) \in Range(printed)
               /\ pc = "exited"
               /\ exitStatus = <<ExitFailure>>
               /\ ExitFailure # ExitSuccess
               /\ opened = <<>>
               /\ calls = <<>>
               /\ updates = <<>>
               /\ saved = <<>>
               /\ Len(toolRuns) = 1

C4_Witness ==
    /\ toolRuns # <<>>
    /\ toolRuns[1].outcome = "timeout"
    /\ pc = "exited"

(* C5: whenever the pre-conversion fails (non-zero exit, timeout, any      *)
(* other exception) the run ends as a failure with no retry and no         *)
(* mapping, and what the tool wrote to its standard error is printed       *)
(* whenever it wrote any.                                                  *)
C5_FailureReportsDiagnostics ==
    \A i \in DOMAIN toolRuns :
        toolRuns[i].outcome # "ok"
            => /\ pc = "exited"
               /\ exitStatus = <<ExitFailure>>
               /\ Len(toolRuns) = 1
               /\ calls = <<>>
               /\ updates = <<>>
               /\ toolRuns[i].stderr # ""
                    => Line(toolRuns[i].stderr) \in Range(printed)

(* C6: the tool is invoked at most once in a run, and never when the       *)
(* input file has the .json extension in any letter case; then the input   *)
(* file itself is the only file opened.                                    *)
C6_JsonInputSkipsTool ==
    /\ Len(toolRuns) <= 1
    /\ HasJsonExtension
         => /\ toolRuns = <<>>
            /\ pc # "run_tool"
            /\ \A i \in DOMAIN opened : opened[i] = input_file

C6_Witness ==
    /\ HasJsonExtension
    /\ splitext(input_file) # JsonSuffix
    /\ opened = <<input_file>>
    /\ pc = "returned"

(* C7, as the claim states it: a completed run has called update on        *)
(* exactly the nine facet units, in facet order, and on no other unit.     *)
C7_NineUnits ==
    pc = "returned" => (Len(mappers) = 9 /\ UnitsCalled = FacetUnits)

(* C7, amended: the list holds ten units, the base metadata mapper first   *)
(* and then the nine facet units in facet order; a completed run has       *)
(* called update on exactly these ten, in this order.                      *)
C7_TenUnits ==
    /\ Len(mappers) = 10
    /\ mappers = <<"MetadataBaseMapper">> \o FacetUnits
    /\ pc = "returned" => UnitsCalled = <<"MetadataBaseMapper">> \o FacetUnits

C7_Witness ==
    /\ pc = "returned"
    /\ Len(updates) = 10

(* C8, as the claim states it: every run that ends in a failure has        *)
(* printed a message naming the stage that failed.                         *)
C8_EveryFailureNamesStage ==
    /\ pc = "exited"
         => \E i \in DOMAIN printed : printed[i].text \in PreConversionFailureMsgs
    /\ pc = "raised"
         => \E i \in DOMAIN printed :
                /\ printed[i].text \notin ProgressTexts
                /\ printed[i].text \notin PreConversionFailureMsgs

(* C8, amended: a run that ends in a failure of the pre-conversion has     *)
(* printed a message naming the conversion to JSON; a failure of any later *)
(* stage leaves convert as an exception and convert prints no message for  *)
(* it: all it has printed are its progress lines.                          *)
C8_OnlyPreConversionNamed ==
    /\ pc = "exited"
         => /\ toolRuns # <<>>
            /\ toolRuns[Len(toolRuns)].outcome # "ok"
            /\ \E i \in DOMAIN printed :
                   printed[i].text \in PreConversionFailureMsgs
    /\ pc = "raised"
         => /\ raised # "none"
            /\ \A i \in DOMAIN printed : printed[i].text \in ProgressTexts

C8_Witness ==
    /\ pc = "exited"
    /\ toolRuns[1].outcome = "nonzero"

(* C9: the serializer is called at most once and only after every mapper   *)
(* has returned; in a run that returns it was called exactly once, last,   *)
(* with the model all mappers updated and with the join of the output      *)
(* directory and the accession number; the model every mapper receives     *)
(* was created with that accession number; a failure of the serializer     *)
(* leaves convert as an exception.                                         *)
C9_SerializedOnceAtEnd ==
    /\ Len(saved) <= 1
    /\ \A i \in DOMAIN saved :
         /\ saved[i].model.updated_by = mappers
         /\ UnitsCalled = mappers
         /\ calls[Len(calls)].fn = SaveName
         /\ calls[Len(calls) - 1] = Call(mappers[Len(mappers)], TRUE)
    /\ \A i \in DOMAIN updates :
         /\ updates[i].dst.created
         /\ updates[i].dst.study_id = mtbls_accession_number
    /\ \A i \in DOMAIN calls :
         /\ calls[i].fn \in MapperNames
              => ReturnedBefore("create_metabolights_study_model", i)
         /\ calls[i] = Call(SaveName, FALSE)
              => /\ pc = "raised"
                 /\ raised = SaveName
                 /\ exitStatus = <<>>
    /\ pc = "returned"
         => /\ Len(saved) = 1
            /\ calls[Len(calls)] = Call(SaveName, TRUE)
            /\ saved[1].model = [created |-> TRUE,
                                 study_id |-> mtbls_accession_number,
                                 updated_by |-> mappers]
            /\ saved[1].output_dir = join(output_dir, mtbls_accession_number)

C9_Witness ==
    /\ pc = "returned"
    /\ Len(saved) = 1
    /\ output_dir # <<>>
    /\ saved[1].output_dir # output_dir

(* C10: for an input without the .json extension only the sibling          *)
(* <input file>.json is opened; when the sibling exists and the override   *)
(* option is off the tool is not invoked; when the option is on or the     *)
(* sibling is missing the tool is invoked, once, before the sibling is     *)
(* opened, and the sibling is opened only after the tool succeeded.        *)
C10_SiblingIsLoaded ==
    ~HasJsonExtension
        => /\ \A i \in DOMAIN opened : opened[i] = Sibling
           /\ (Sibling \in fs /\ ~override_mztab2m_json_file)
                => /\ toolRuns = <<>>
                   /\ pc # "run_tool"
           /\ (override_mztab2m_json_file \/ Sibling \notin fs)
                => /\ pc \notin {"begin", "check_extension", "run_tool"}
                        => Len(toolRuns) = 1
                   /\ opened # <<>> => toolRuns[1].outcome = "ok"

C10_Witness ==
    /\ ~HasJsonExtension
    /\ override_mztab2m_json_file
    /\ Sibling \in fs
    /\ opened = <<Sibling>>
    /\ Len(toolRuns) = 1

=============================================================================
